---- MODULE Spec2Model ----
(***************************************************************************)
(* Shape-level model of uncodec/modules/useanet.py: the USEANetEncoder and *)
(* USEANetDecoder constructors (the layer stacks and adapter layers they   *)
(* build) and their forward passes (one step per top-level layer), over    *)
(* tensor shapes (batch, channels, time).                                  *)
(*                                                                         *)
(* SConv1d, SConvTranspose1d, SEANetResnetBlock and SLSTM are imported     *)
(* from the package and are modelled by their effect on the shape: a       *)
(* stride-r convolution divides the time length by r, a stride-r           *)
(* transposed convolution multiplies it by r, residual blocks and the      *)
(* LSTM keep the shape.  Inputs have a time length that is a multiple of   *)
(* the encoder's hop length, so every encoder division is exact.           *)
(***************************************************************************)
EXTENDS Integers, Sequences, FiniteSets, TLC

VARIABLES phase, enc_args, enc, x0, ef, dec_args, dec, df

vars == <<phase, enc_args, enc, x0, ef, dec_args, dec, df>>

(***************************************************************************)
(* Bounds of the model.                                                    *)
(***************************************************************************)
MaxStages == 2
MaxResidual == 1
MaxFrames == 2

(***************************************************************************)
(* Defaults of the constructors' signatures.                               *)
(***************************************************************************)
KernelSize == 7
LastKernelSize == 7
ResidualKernelSize == 3
DilationBase == 2
DefaultLstm == 2
Dimension == 128

StageRatios == {2, 3}
NFilters == {1, 2}
Channels == {1, 2}
Batches == {2}
LstmChoices == {0, DefaultLstm}

\* Names that getattr(nn, name) resolves, and one it does not.
NNModules == {"ELU", "ReLU", "Tanh"}
ActivationNames == {"ELU", "ReLU", "Swish"}
FinalActivationNames == {"None", "Tanh", "ELU", "Swish"}
SkipTypes == {"cat_linear", "scaled_sum", "sum"}

RatioLists == UNION {[1..n -> StageRatios] : n \in 0..MaxStages}

(***************************************************************************)
(* Helpers.                                                                *)
(***************************************************************************)
RECURSIVE Pow(_, _)
Pow(b, e) == IF e = 0 THEN 1 ELSE b * Pow(b, e - 1)

RECURSIVE Prod(_)
Prod(s) == IF Len(s) = 0 THEN 1 ELSE Head(s) * Prod(Tail(s))

Reversed(s) == [k \in 1..Len(s) |-> s[Len(s) + 1 - k]]

Max(a, b) == IF a >= b THEN a ELSE b

Shape(b, c, t) == [b |-> b, c |-> c, t |-> t]

NoShape == Shape(0, 0, 0)

(***************************************************************************)
(* Layers.  kind is the layer's class name.                                *)
(***************************************************************************)
Layer(kind, cin, cout, ks, stride, dilation) ==
    [kind |-> kind, cin |-> cin, cout |-> cout, kernel_size |-> ks,
     stride |-> stride, dilation |-> dilation]

SConv1d(cin, cout, ks, stride) == Layer("SConv1d", cin, cout, ks, stride, 1)

SConvTranspose1d(cin, cout, ks, stride) ==
    Layer("SConvTranspose1d", cin, cout, ks, stride, 1)

SEANetResnetBlock(dim, ks, dilation) ==
    Layer("SEANetResnetBlock", dim, dim, ks, 1, dilation)

SLSTM(dim, num_layers) == Layer("SLSTM", dim, dim, num_layers, 1, 1)

\* act(**activation_params): an instance of the class nn.<name>
Act(name) == Layer(name, 0, 0, 0, 1, 1)

\* l(x) for one layer l
Apply(l, x) ==
    CASE l.kind = "SConv1d" -> Shape(x.b, l.cout, x.t \div l.stride)
      [] l.kind = "SConvTranspose1d" -> Shape(x.b, l.cout, x.t * l.stride)
      [] OTHER -> x

(***************************************************************************)
(* USEANetEncoder.__init__                                                 *)
(***************************************************************************)
\* lines 55-61: the residual layers j = from..n_residual_layers-1 of a stage
RECURSIVE ResidualLayers(_, _, _)
ResidualLayers(dim, n, j) ==
    IF j >= n THEN <<>>
    ELSE <<SEANetResnetBlock(dim, ResidualKernelSize, Pow(DilationBase, j))>>
         \o ResidualLayers(dim, n, j + 1)

\* lines 53-71: the stages k..len(self.ratios), mult being the running width
RECURSIVE EncoderStages(_, _, _, _)
EncoderStages(kw, ratios, k, mult) ==
    IF k > Len(ratios) THEN <<>>
    ELSE ResidualLayers(mult * kw.n_filters, kw.n_residual_layers, 0)
         \o <<Act(kw.activation),
              SConv1d(mult * kw.n_filters, mult * kw.n_filters * 2,
                      ratios[k] * 2, ratios[k])>>
         \o EncoderStages(kw, ratios, k + 1, mult * 2)

\* the last nonlinearity built only together with the LSTM
EncoderTailActUnderLstm(kw, mult) ==
    (IF kw.lstm # 0
     THEN <<SLSTM(mult * kw.n_filters, kw.lstm), Act(kw.activation)>>
     ELSE <<>>)
    \o <<SConv1d(mult * kw.n_filters, kw.dimension, LastKernelSize, 1)>>

\* lines 73-80: the optional LSTM, the last nonlinearity and convolution
EncoderTail(kw, mult) ==
    (IF kw.lstm # 0 THEN <<SLSTM(mult * kw.n_filters, kw.lstm)>> ELSE <<>>)
    \o <<Act(kw.activation),
         SConv1d(mult * kw.n_filters, kw.dimension, LastKernelSize, 1)>>

NoEncoder ==
    [ok |-> FALSE, error |-> "none", channels |-> 0, dimension |-> 0,
     n_filters |-> 0, ratios |-> <<>>, n_residual_layers |-> 0,
     hop_length |-> 0, model |-> <<>>]

USEANetEncoderInit(kw) ==
    LET ratios == Reversed(kw.ratios)
        self == [ok |-> TRUE, error |-> "none", channels |-> kw.channels,
                 dimension |-> kw.dimension, n_filters |-> kw.n_filters,
                 ratios |-> ratios,
                 n_residual_layers |-> kw.n_residual_layers,
                 hop_length |-> Prod(ratios), model |-> <<>>]
    IN  IF kw.activation \notin NNModules
        THEN [self EXCEPT !.ok = FALSE, !.error = "AttributeError"]
        ELSE [self EXCEPT !.model =
                <<SConv1d(kw.channels, kw.n_filters, KernelSize, 1)>>
                \o EncoderStages(kw, ratios, 1, 1)
                \o EncoderTail(kw, Pow(2, Len(ratios)))]

(***************************************************************************)
(* USEANetEncoder.forward                                                  *)
(***************************************************************************)
\* line 88 / line 211: the layers whose output is captured / fused
IsCaptured(l) == l.kind = "ELU"

Frame(x) ==
    [pc |-> 1, x |-> x, activations |-> <<>>, i |-> 0, err |-> "none",
     trace |-> <<>>]

NoFrame == [Frame(NoShape) EXCEPT !.pc = 0]

Entry(op, x) == [op |-> op, x |-> x]

\* lines 86-89: one iteration of the loop over self.model
EncoderForwardLayer(l, f) ==
    LET x == Apply(l, f.x)
    IN  [f EXCEPT !.pc = f.pc + 1,
                  !.x = x,
                  !.activations = IF IsCaptured(l) THEN Append(@, x) ELSE @,
                  !.trace = Append(@, Entry(l.kind, x))]

\* lines 84-91 as a function: the frame at the return statement
RECURSIVE EncoderForward(_, _)
EncoderForward(model, f) ==
    IF f.pc > Len(model) THEN f
    ELSE EncoderForward(model, EncoderForwardLayer(model[f.pc], f))

(***************************************************************************)
(* USEANetDecoder.__init__                                                 *)
(***************************************************************************)
\* torch.nn.Linear(in_features, out_features), optionally followed by a
\* ScaleLayer (lines 93-99, which keeps the shape)
Linear(fin, fout) == [in_features |-> fin, out_features |-> fout, scale |-> FALSE]

ScaledLinear(fin, fout) == [in_features |-> fin, out_features |-> fout, scale |-> TRUE]

Raise == [raise |-> TRUE, layers |-> <<>>]

Built(adapter) == [raise |-> FALSE, layers |-> <<adapter>>]

\* the stage adapter with the concatenated width taken from both modules
StageAdapterBothWidths(kw, mult) ==
    IF kw.skip_connection_type = "cat_linear"
    THEN Built(Linear(mult * kw.n_filters + mult * kw.n_filters_encoder,
                      mult * kw.n_filters))
    ELSE IF kw.skip_connection_type = "scaled_sum"
    THEN Built(ScaledLinear(mult * kw.n_filters_encoder, mult * kw.n_filters))
    ELSE Raise

\* lines 167-172: the adapter of a stage, built before mult is halved
StageAdapter(kw, mult) ==
    IF kw.skip_connection_type = "cat_linear"
    THEN Built(Linear(2 * mult * kw.n_filters, mult * kw.n_filters))
    ELSE IF kw.skip_connection_type = "scaled_sum"
    THEN Built(ScaledLinear(mult * kw.n_filters_encoder, mult * kw.n_filters))
    ELSE Raise

\* the final adapter without the else branch that raises
FinalAdapterNoRaise(kw) ==
    IF kw.skip_connection_type = "cat_linear"
    THEN Built(Linear(kw.n_filters + kw.n_filters_encoder, kw.n_filters))
    ELSE IF kw.skip_connection_type = "scaled_sum"
    THEN Built(ScaledLinear(kw.n_filters_encoder, kw.n_filters))
    ELSE [raise |-> FALSE, layers |-> <<>>]

\* lines 190-195: the adapter of the final fusion point
FinalAdapter(kw) ==
    IF kw.skip_connection_type = "cat_linear"
    THEN Built(Linear(kw.n_filters + kw.n_filters_encoder, kw.n_filters))
    ELSE IF kw.skip_connection_type = "scaled_sum"
    THEN Built(ScaledLinear(kw.n_filters_encoder, kw.n_filters))
    ELSE Raise

\* the upsampling layer placed before the nonlinearity of its stage
UpsamplingLayersConvFirst(kw, ratio, mult) ==
    <<SConvTranspose1d(mult * kw.n_filters, (mult * kw.n_filters) \div 2,
                       ratio * 2, ratio),
      Act(kw.activation)>>

\* lines 160-166: the nonlinearity and the upsampling layer of a stage
UpsamplingLayers(kw, ratio, mult) ==
    <<Act(kw.activation),
      SConvTranspose1d(mult * kw.n_filters, (mult * kw.n_filters) \div 2,
                       ratio * 2, ratio)>>

\* lines 158-182: the stages k..len(self.ratios); mult is the running width
RECURSIVE DecoderStages(_, _, _)
DecoderStages(kw, k, mult) ==
    IF k > Len(kw.ratios)
    THEN [raise |-> FALSE, model |-> <<>>, adaptation_layers |-> <<>>]
    ELSE LET adapter == StageAdapter(kw, mult)
             rest == DecoderStages(kw, k + 1, mult \div 2)
         IN  IF adapter.raise \/ rest.raise
             THEN [raise |-> TRUE, model |-> <<>>, adaptation_layers |-> <<>>]
             ELSE [raise |-> FALSE,
                   model |-> UpsamplingLayers(kw, kw.ratios[k], mult)
                             \o ResidualLayers((mult * kw.n_filters) \div 2,
                                               kw.n_residual_layers, 0)
                             \o rest.model,
                   adaptation_layers |-> adapter.layers \o rest.adaptation_layers]

\* lines 185-189: the final nonlinearity and convolution
FinalLayers(kw) ==
    <<Act(kw.activation),
      SConv1d(kw.n_filters, kw.channels, LastKernelSize, 1)>>

\* lines 197-202: the optional final activation
FinalActivation(kw) ==
    IF kw.final_activation = "None" THEN <<>> ELSE <<Act(kw.final_activation)>>

NoDecoder ==
    [ok |-> FALSE, error |-> "none", channels |-> 0, dimension |-> 0,
     n_filters |-> 0, ratios |-> <<>>, n_residual_layers |-> 0,
     hop_length |-> 0, skip_connection_type |-> "none", model |-> <<>>,
     adaptation_layers |-> <<>>]

USEANetDecoderInit(kw) ==
    LET mult == Pow(2, Len(kw.ratios))
        self == [ok |-> TRUE, error |-> "none", channels |-> kw.channels,
                 dimension |-> kw.dimension, n_filters |-> kw.n_filters,
                 ratios |-> kw.ratios,
                 n_residual_layers |-> kw.n_residual_layers,
                 hop_length |-> Prod(kw.ratios),
                 skip_connection_type |-> kw.skip_connection_type,
                 model |-> <<>>, adaptation_layers |-> <<>>]
        stages == DecoderStages(kw, 1, mult)
        last == FinalAdapter(kw)
    IN  IF kw.activation \notin NNModules
        THEN [self EXCEPT !.ok = FALSE, !.error = "AttributeError"]
        ELSE IF stages.raise \/ last.raise
        THEN [self EXCEPT !.ok = FALSE, !.error = "Exception"]
        ELSE IF kw.final_activation # "None" /\ kw.final_activation \notin NNModules
        THEN [self EXCEPT !.ok = FALSE, !.error = "AttributeError"]
        ELSE [self EXCEPT
                !.model = <<SConv1d(kw.dimension, mult * kw.n_filters, KernelSize, 1)>>
                          \o (IF kw.lstm # 0
                              THEN <<SLSTM(mult * kw.n_filters, kw.lstm)>>
                              ELSE <<>>)
                          \o stages.model
                          \o FinalLayers(kw)
                          \o FinalActivation(kw),
                !.adaptation_layers = stages.adaptation_layers \o last.layers]

(***************************************************************************)
(* USEANetDecoder.forward                                                  *)
(***************************************************************************)
\* line 211: the layers after which the decoder fuses an encoder activation
IsFusionPoint(l) == l.kind = "ELU"

\* activations[-1-i]: position (1-based) in the list, 0 when out of range
SkipIndex(activations, i) ==
    IF 1 + i <= Len(activations) THEN Len(activations) - i ELSE 0

Failed(err) == [err |-> err, x |-> NoShape]

Fused(x) == [err |-> "none", x |-> x]

\* a dimension of x + y under broadcasting
Broadcastable(m, n) == m = n \/ m = 1 \/ n = 1

\* lines 214-217: torch.cat along the channel axis, then the adapter
CatLinear(adaptation_layers, x, a, i) ==
    IF x.b # a.b \/ x.t # a.t THEN Failed("RuntimeError")
    ELSE IF i >= Len(adaptation_layers) THEN Failed("IndexError")
    ELSE IF x.c + a.c # adaptation_layers[i + 1].in_features
    THEN Failed("RuntimeError")
    ELSE Fused(Shape(x.b, adaptation_layers[i + 1].out_features, x.t))

\* lines 219-220: the adapter on the activation, then the broadcasting sum
ScaledSum(adaptation_layers, x, a, i) ==
    IF i >= Len(adaptation_layers) THEN Failed("IndexError")
    ELSE IF a.c # adaptation_layers[i + 1].in_features THEN Failed("RuntimeError")
    ELSE LET y == Shape(a.b, adaptation_layers[i + 1].out_features, a.t)
         IN  IF Broadcastable(x.b, y.b) /\ Broadcastable(x.c, y.c)
                /\ Broadcastable(x.t, y.t)
             THEN Fused(Shape(Max(x.b, y.b), Max(x.c, y.c), Max(x.t, y.t)))
             ELSE Failed("RuntimeError")

\* lines 213-220: the fusion of x with activations[-1-i]
Fuse(self, activations, x, i) ==
    IF self.skip_connection_type \notin {"cat_linear", "scaled_sum"} THEN Fused(x)
    ELSE IF SkipIndex(activations, i) = 0 THEN Failed("IndexError")
    ELSE IF self.skip_connection_type = "cat_linear"
    THEN CatLinear(self.adaptation_layers, x, activations[SkipIndex(activations, i)], i)
    ELSE ScaledSum(self.adaptation_layers, x, activations[SkipIndex(activations, i)], i)

\* lines 210-223: one iteration of the loop over self.model
DecoderForwardLayer(self, l, f) ==
    LET x == Apply(l, f.x)
        r == Fuse(self, f.activations, x, f.i)
    IN  IF ~IsFusionPoint(l)
        THEN [f EXCEPT !.pc = f.pc + 1, !.x = x,
                       !.trace = Append(@, Entry(l.kind, x))]
        ELSE IF r.err # "none"
        THEN [f EXCEPT !.x = x, !.err = r.err,
                       !.trace = Append(@, Entry(l.kind, x))]
        ELSE [f EXCEPT !.pc = f.pc + 1, !.x = r.x, !.i = f.i + 1,
                       !.trace = Append(Append(@, Entry(l.kind, x)),
                                        Entry("fuse", r.x))]

\* lines 207-225 as a function: the frame when forward returns or raises
RECURSIVE DecoderForward(_, _)
DecoderForward(self, f) ==
    IF f.pc > Len(self.model) \/ f.err # "none" THEN f
    ELSE DecoderForward(self, DecoderForwardLayer(self, self.model[f.pc], f))

\* forward(z) with z = (x, activations): the frame on entry
DecoderFrame(x, activations) == [Frame(x) EXCEPT !.activations = activations]

(***************************************************************************)
(* The arguments the runs are built from.                                  *)
(***************************************************************************)
DefaultResidual == 1

EncoderArgs ==
    [channels : Channels, dimension : {Dimension}, n_filters : NFilters,
     n_residual_layers : 0..MaxResidual, ratios : RatioLists,
     activation : ActivationNames, lstm : LstmChoices]

\* Inputs (batch, channels, T) with T a multiple of the product of the ratios
Inputs(kw) ==
    {Shape(b, kw.channels, frames * Prod(kw.ratios)) :
        b \in Batches, frames \in 1..MaxFrames}

DecoderArgsOf(ea, ratios, n_filters, n_filters_encoder, skip, activation, final) ==
    [channels |-> ea.channels, dimension |-> ea.dimension,
     n_filters |-> n_filters, n_residual_layers |-> ea.n_residual_layers,
     ratios |-> ratios, activation |-> activation,
     final_activation |-> final, lstm |-> ea.lstm,
     skip_connection_type |-> skip, n_filters_encoder |-> n_filters_encoder]

\* Decoders built from the encoder's ratios and widths; the activation
\* names and the skip type vary.
PairedDecoderArgs(ea) ==
    {DecoderArgsOf(ea, ea.ratios, ea.n_filters, ea.n_filters, skip, a, fa) :
        skip \in SkipTypes, a \in ActivationNames, fa \in FinalActivationNames}

\* Decoders whose ratios and widths vary freely, for an encoder built with
\* the default n_residual_layers and lstm; the activation is the encoder's.
FreeDecoderArgs(ea) ==
    IF ea.n_residual_layers = DefaultResidual /\ ea.lstm = DefaultLstm
    THEN {DecoderArgsOf(ea, r, nf, nfe, skip, ea.activation, "None") :
            r \in RatioLists, nf \in NFilters, nfe \in NFilters,
            skip \in SkipTypes}
    ELSE {}

DecoderArgs(ea) == PairedDecoderArgs(ea) \cup FreeDecoderArgs(ea)

NoDecoderArgs ==
    [channels |-> 0, dimension |-> 0, n_filters |-> 0, n_residual_layers |-> 0,
     ratios |-> <<>>, activation |-> "none", final_activation |-> "none",
     lstm |-> 0, skip_connection_type |-> "none", n_filters_encoder |-> 0]

(***************************************************************************)
(* The runs: build the encoder, run it on x0, build a decoder, run it on   *)
(* the encoder's (latent, activations).                                    *)
(***************************************************************************)
Init ==
    /\ phase = "start"
    /\ enc_args \in EncoderArgs
    /\ x0 \in Inputs(enc_args)
    /\ enc = NoEncoder
    /\ ef = NoFrame
    /\ dec_args = NoDecoderArgs
    /\ dec = NoDecoder
    /\ df = NoFrame

\* encoder = USEANetEncoder(**enc_args)
ConstructEncoder ==
    /\ phase = "start"
    /\ enc' = USEANetEncoderInit(enc_args)
    /\ phase' = IF enc'.ok THEN "encoder_built" ELSE "encoder_raised"
    /\ UNCHANGED <<enc_args, x0, ef, dec_args, dec, df>>

\* encoder(x0): entry of forward (line 85)
EncoderForwardCall ==
    /\ phase = "encoder_built"
    /\ ef' = Frame(x0)
    /\ phase' = "encoder_forward"
    /\ UNCHANGED <<enc_args, enc, x0, dec_args, dec, df>>

\* lines 86-89
EncoderForwardStep ==
    /\ phase = "encoder_forward"
    /\ ef.pc <= Len(enc.model)
    /\ ef' = EncoderForwardLayer(enc.model[ef.pc], ef)
    /\ UNCHANGED <<phase, enc_args, enc, x0, dec_args, dec, df>>

\* line 91: return x, activations
EncoderForwardReturn ==
    /\ phase = "encoder_forward"
    /\ ef.pc > Len(enc.model)
    /\ phase' = "encoder_returned"
    /\ UNCHANGED <<enc_args, enc, x0, ef, dec_args, dec, df>>

\* decoder = USEANetDecoder(**kw)
ConstructDecoder ==
    /\ phase = "encoder_returned"
    /\ \E kw \in DecoderArgs(enc_args) :
        /\ dec_args' = kw
        /\ dec' = USEANetDecoderInit(kw)
    /\ phase' = IF dec'.ok THEN "decoder_built" ELSE "decoder_raised"
    /\ UNCHANGED <<enc_args, enc, x0, ef, df>>

\* decoder(z) with z the encoder's return value: lines 208-209
DecoderForwardCall ==
    /\ phase = "decoder_built"
    /\ df' = DecoderFrame(ef.x, ef.activations)
    /\ phase' = "decoder_forward"
    /\ UNCHANGED <<enc_args, enc, x0, ef, dec_args, dec>>

\* lines 210-223
DecoderForwardStep ==
    /\ phase = "decoder_forward"
    /\ df.err = "none"
    /\ df.pc <= Len(dec.model)
    /\ df' = DecoderForwardLayer(dec, dec.model[df.pc], df)
    /\ UNCHANGED <<phase, enc_args, enc, x0, ef, dec_args, dec>>

\* line 225 (return x), or the exception leaving forward
DecoderForwardReturn ==
    /\ phase = "decoder_forward"
    /\ df.err # "none" \/ df.pc > Len(dec.model)
    /\ phase' = IF df.err = "none" THEN "decoder_returned" ELSE "decoder_forward_raised"
    /\ UNCHANGED <<enc_args, enc, x0, ef, dec_args, dec, df>>

Next ==
    \/ ConstructEncoder
    \/ EncoderForwardCall
    \/ EncoderForwardStep
    \/ EncoderForwardReturn
    \/ ConstructDecoder
    \/ DecoderForwardCall
    \/ DecoderForwardStep
    \/ DecoderForwardReturn

Spec == Init /\ [][Next]_vars

(***************************************************************************)
(* Vocabulary of the properties.                                           *)
(***************************************************************************)
SupportedSkipTypes == {"cat_linear", "scaled_sum"}

EncoderReturned ==
    phase \in {"encoder_returned", "decoder_built", "decoder_raised",
               "decoder_forward", "decoder_returned", "decoder_forward_raised"}

DecoderConstructed ==
    phase \in {"decoder_built", "decoder_forward", "decoder_returned",
               "decoder_forward_raised"}

DecoderCalled ==
    phase \in {"decoder_forward", "decoder_returned", "decoder_forward_raised"}

DecoderFinished == phase \in {"decoder_returned", "decoder_forward_raised"}

\* The decoder's upsampling strides are the encoder's downsampling strides
\* in reverse order.
PairedRatios == dec.ratios = Reversed(enc.ratios)

\* Encoder and decoder built from the same channels, dimension, n_filters,
\* ratios and activation, with n_filters_encoder the encoder's n_filters.
PairedConfiguration ==
    /\ DecoderConstructed
    /\ PairedRatios
    /\ dec.channels = enc.channels
    /\ dec.dimension = enc.dimension
    /\ dec.n_filters = enc.n_filters
    /\ dec_args.n_filters_encoder = enc.n_filters
    /\ dec_args.activation = enc_args.activation

\* Both modules are built with the default activation, 'ELU'.
BothELU == enc_args.activation = "ELU" /\ dec_args.activation = "ELU"

\* The forward pass is about to apply a layer after which it fuses.
AtFusionPoint ==
    /\ phase = "decoder_forward"
    /\ df.err = "none"
    /\ df.pc <= Len(dec.model)
    /\ IsFusionPoint(dec.model[df.pc])

Ops(trace) == [k \in 1..Len(trace) |-> trace[k].op]

IsPrefix(s, t) == Len(s) <= Len(t) /\ s = SubSeq(t, 1, Len(s))

RECURSIVE Repeat(_, _)
Repeat(s, n) == IF n = 0 THEN <<>> ELSE s \o Repeat(s, n - 1)

(***************************************************************************)
(* C1  Round trip: for a paired configuration with a supported skip type   *)
(* and an input whose length is a multiple of the ratio product, the       *)
(* decoder's forward pass on the encoder's output completes and returns    *)
(* the input's shape (batch, channels, T).                                 *)
(***************************************************************************)
C1_RoundTripShape ==
    (PairedConfiguration /\ DecoderFinished)
        => (phase = "decoder_returned" /\ df.x = x0)

\* The round trip of C1 for the decoders whose final activation is not an ELU.
RoundTripWithoutFinalELU ==
    (PairedConfiguration /\ DecoderFinished /\ dec_args.final_activation # "ELU")
        => (phase = "decoder_returned" /\ df.x = x0)

C3_AdaptersMatchFusionPoints ==
    DecoderConstructed =>
        /\ Len(dec.adaptation_layers) = Len(dec.ratios) + 1
        /\ (DecoderCalled /\ Len(df.activations) = Len(dec.ratios) + 1)
              => /\ df.err # "IndexError"
                 /\ df.i <= Len(dec.ratios) + 1
                 /\ (phase = "decoder_returned" => df.i = Len(dec.ratios) + 1)

(***************************************************************************)
(* C4  Fusion alignment: in a paired configuration, at every fusion point  *)
(* i in 0..len(ratios) the activation consumed is the one captured at      *)
(* position len(ratios) - i (from 0) of the len(ratios) + 1 captured, it   *)
(* has the decoder tensor's batch and time length, the adapter's input     *)
(* width is the width it is fed, its output width is the decoder tensor's  *)
(* width, and the fusion succeeds.                                         *)
(***************************************************************************)
FusionAligned ==
    LET n == Len(dec.ratios)
        i == df.i
        k == SkipIndex(df.activations, i)
        x == Apply(dec.model[df.pc], df.x)
    IN  /\ Len(df.activations) = n + 1
        /\ k = n + 1 - i
        /\ i < Len(dec.adaptation_layers)
        /\ LET a == df.activations[k]
               adapter == dec.adaptation_layers[i + 1]
           IN  /\ a.t = x.t
               /\ a.b = x.b
               /\ a.t * Prod(SubSeq(enc.ratios, 1, n - i)) = x0.t
               /\ adapter.in_features =
                    IF dec.skip_connection_type = "cat_linear"
                    THEN x.c + a.c ELSE a.c
               /\ adapter.out_features = x.c
               /\ Fuse(dec, df.activations, x, i).err = "none"

FusionAlignedWithELU ==
    (PairedConfiguration /\ BothELU /\ AtFusionPoint /\ df.i <= Len(dec.ratios))
        => FusionAligned

(***************************************************************************)
(* C5  A decoder given a skip_connection_type other than 'cat_linear' or   *)
(* 'scaled_sum' is never constructed (the constructor raises, whatever     *)
(* the ratios), so no forward pass runs with an unsupported skip type.     *)
(***************************************************************************)
C5_UnsupportedSkipRaises ==
    /\ (dec_args # NoDecoderArgs
        /\ dec_args.skip_connection_type \notin SupportedSkipTypes)
          => (phase = "decoder_raised" /\ ~dec.ok /\ dec.error # "none")
    /\ DecoderConstructed => dec.skip_connection_type \in SupportedSkipTypes

C5_Witness ==
    /\ phase = "decoder_raised"
    /\ dec_args.skip_connection_type = "sum"
    /\ dec_args.ratios = <<>>
    /\ dec.error = "Exception"

(***************************************************************************)
(* C6  A decoder whose ratios are not the reverse of the encoder's applied *)
(* ratios never completes a forward pass, and in particular never returns  *)
(* a tensor whose shape differs from the input's (stated for the default   *)
(* activation, for which every nonlinearity is captured and fused).        *)
(***************************************************************************)
C6_MismatchedRatiosDetected ==
    (DecoderConstructed /\ ~PairedRatios /\ BothELU) =>
        /\ phase # "decoder_returned"
        /\ ~(phase = "decoder_returned" /\ df.x # x0)

(***************************************************************************)
(* C7  With every other argument equal, the forward pass of the decoder    *)
(* built with 'cat_linear' succeeds exactly when the one built with        *)
(* 'scaled_sum' does, and both return the same shape (stated for paired    *)
(* ratios and the default activation).                                     *)
(***************************************************************************)
OtherSkipType(t) == IF t = "cat_linear" THEN "scaled_sum" ELSE "cat_linear"

SwappedDecoder ==
    USEANetDecoderInit(
        [dec_args EXCEPT !.skip_connection_type = OtherSkipType(@)])

\* C7: both skip types succeed on the same inputs, with the same shape
C7_SkipTypeSwap ==
    (DecoderFinished /\ PairedRatios /\ BothELU) =>
        LET other == DecoderForward(SwappedDecoder,
                                    DecoderFrame(ef.x, ef.activations))
        IN  /\ (other.err = "none") <=> (df.err = "none")
            /\ (other.err = "none" /\ df.err = "none") => other.x = df.x

(***************************************************************************)
(* C8  n_residual_layers = 0 and lstm = 0 are accepted by both             *)
(* constructors and only leave out the residual blocks and the LSTM: the   *)
(* remaining layers, the adapters, the captured activations, the fusion    *)
(* count, the outcome and the shape after every remaining layer are those  *)
(* of the same arguments with residual blocks and an LSTM.                 *)
(***************************************************************************)
Plain(kw) == [kw EXCEPT !.n_residual_layers = 0, !.lstm = 0]

IsOptionalLayer(l) == l.kind \in {"SEANetResnetBlock", "SLSTM"}

IsRemainingEntry(e) == e.op \notin {"SEANetResnetBlock", "SLSTM"}

Remaining(model) == SelectSeq(model, LAMBDA l : ~IsOptionalLayer(l))

RemainingTrace(trace) == SelectSeq(trace, IsRemainingEntry)

C8_Encoder ==
    LET plain == USEANetEncoderInit(Plain(enc_args))
        f == EncoderForward(plain.model, Frame(x0))
    IN  /\ phase \in {"encoder_built", "encoder_raised"} =>
            /\ plain.ok = enc.ok
            /\ plain.model = Remaining(enc.model)
            /\ [plain EXCEPT !.model = <<>>, !.n_residual_layers = 0]
                 = [enc EXCEPT !.model = <<>>, !.n_residual_layers = 0]
        /\ phase = "encoder_returned" =>
            /\ f.x = ef.x
            /\ f.activations = ef.activations
            /\ f.trace = RemainingTrace(ef.trace)

C8_Decoder ==
    LET plain == USEANetDecoderInit(Plain(dec_args))
        f == DecoderForward(plain, DecoderFrame(ef.x, ef.activations))
    IN  /\ phase \in {"decoder_built", "decoder_raised"} =>
            /\ plain.ok = dec.ok
            /\ plain.error = dec.error
            /\ plain.model = Remaining(dec.model)
            /\ plain.adaptation_layers = dec.adaptation_layers
        /\ DecoderFinished =>
            /\ f.x = df.x
            /\ f.i = df.i
            /\ f.err = df.err
            /\ f.trace = RemainingTrace(df.trace)

\* C8: without residual blocks and LSTM only those layers are missing
C8_ZeroLayersOnlyOmit ==
    /\ C8_Encoder
    /\ C8_Decoder
    /\ (phase = "encoder_built" \/ phase = "encoder_raised")
          => (enc.ok <=> enc_args.activation \in NNModules)

C8_Witness ==
    /\ phase = "decoder_returned"
    /\ dec_args.n_residual_layers > 0
    /\ dec_args.lstm > 0
    /\ Len(dec.ratios) = 2
    /\ df.i = 3
    /\ Len(RemainingTrace(df.trace)) < Len(df.trace)

(***************************************************************************)
(* C9  Order of the decoder's operations.                                  *)
(* As claimed: in a stage nonlinearity, transposed convolution, fusion,    *)
(* residual blocks; then final nonlinearity, final convolution, fusion,    *)
(* optional final activation.                                              *)
(* As amended: every fusion directly follows a nonlinearity (a top-level   *)
(* layer of class ELU) and none follows a convolution, so a stage is       *)
(* nonlinearity, fusion, transposed convolution, residual blocks and the   *)
(* end is final nonlinearity, fusion, final convolution, optional final    *)
(* activation.                                                             *)
(***************************************************************************)
FusionOps(name) == IF name = "ELU" THEN <<"fuse">> ELSE <<>>

OptionalOps(kw) ==
    IF kw.final_activation = "None" THEN <<>> ELSE <<kw.final_activation>>

OptionalFusedOps(kw) == OptionalOps(kw) \o FusionOps(kw.final_activation)

LstmOps(kw) == IF kw.lstm # 0 THEN <<"SLSTM">> ELSE <<>>

ResidualOps(kw) == Repeat(<<"SEANetResnetBlock">>, kw.n_residual_layers)

ClaimedOrder(kw) ==
    <<"SConv1d">> \o LstmOps(kw)
    \o Repeat(<<kw.activation, "SConvTranspose1d">> \o FusionOps(kw.activation)
              \o ResidualOps(kw), Len(kw.ratios))
    \o <<kw.activation, "SConv1d">> \o FusionOps(kw.activation)
    \o OptionalOps(kw)

AmendedOrder(kw) ==
    <<"SConv1d">> \o LstmOps(kw)
    \o Repeat(<<kw.activation>> \o FusionOps(kw.activation)
              \o <<"SConvTranspose1d">> \o ResidualOps(kw), Len(kw.ratios))
    \o <<kw.activation>> \o FusionOps(kw.activation) \o <<"SConv1d">>
    \o OptionalFusedOps(kw)

\* C9 as claimed: the fusion follows the (transposed) convolution
C9_ClaimedOrder ==
    (DecoderCalled /\ BothELU /\ dec_args.final_activation # "ELU") =>
        /\ IsPrefix(Ops(df.trace), ClaimedOrder(dec_args))
        /\ phase = "decoder_returned" => Ops(df.trace) = ClaimedOrder(dec_args)

\* C9 as amended: the fusion follows the nonlinearity, before the convolution
C9_FusionFollowsNonlinearity ==
    DecoderCalled =>
        /\ IsPrefix(Ops(df.trace), AmendedOrder(dec_args))
        /\ phase = "decoder_returned" => Ops(df.trace) = AmendedOrder(dec_args)
        /\ \A k \in 1..Len(df.trace) :
              df.trace[k].op = "fuse" => (k > 1 /\ df.trace[k - 1].op = "ELU")
        /\ \A k \in 2..Len(df.trace) :
              df.trace[k - 1].op \in {"SConv1d", "SConvTranspose1d"}
                  => df.trace[k].op # "fuse"

C9_Witness ==
    /\ phase = "decoder_returned"
    /\ Len(dec.ratios) = 2
    /\ dec_args.n_residual_layers > 0
    /\ dec_args.final_activation = "Tanh"
    /\ df.i = 3

(***************************************************************************)
(* C10  Mismatched base filter counts (ratios paired, at least one stage,  *)
(* both modules built with the activation 'ELU').                          *)
(* As claimed: the decoder's forward pass never completes, whatever        *)
(* n_filters_encoder and the skip type.                                    *)
(* As amended: with 'cat_linear', or with 'scaled_sum' and an              *)
(* n_filters_encoder that is not the encoder's n_filters, no fusion        *)
(* succeeds and the first one raises a shape mismatch; with 'scaled_sum'   *)
(* and n_filters_encoder the encoder's n_filters no fusion raises a shape  *)
(* mismatch and the pass returns the input's shape.                        *)
(***************************************************************************)
MismatchedFilters ==
    /\ DecoderConstructed
    /\ PairedRatios
    /\ Len(dec.ratios) >= 1
    /\ dec.n_filters # enc.n_filters

AdapterFitsEncoder ==
    /\ dec.skip_connection_type = "scaled_sum"
    /\ dec_args.n_filters_encoder = enc.n_filters

C10_WitnessCat ==
    /\ MismatchedFilters
    /\ BothELU
    /\ dec.skip_connection_type = "cat_linear"
    /\ dec_args.n_filters_encoder = enc.n_filters
    /\ phase = "decoder_forward_raised"

====
